---- MODULE Spec2Model ----
(***************************************************************************)
(* State-machine model of services/sessionService.js (SessionService).     *)
(*                                                                         *)
(* Every async method is a call record in `calls`; each `await` of a store *)
(* operation is one atomic step of that call, so calls interleave exactly  *)
(* at the await points of the source.  The synchronous code that follows   *)
(* an await up to the next store request (checks, throws, the broadcast)   *)
(* runs when the awaited promise resolves.                                 *)
(***************************************************************************)
EXTENDS Integers, Sequences, FiniteSets, TLC

\* ------------------------------------------------------------------ bounds
NumUsers == 2
MaxSessions == 1
MaxCapacity == 2
NumMessages == 1
MaxCalls == 4
MaxInFlight == 2
MaxPayments == 1

Users == 1..NumUsers
SessionIds == 1..MaxSessions
Capacities == 1..MaxCapacity
Messages == 1..NumMessages
Roles == {"coach", "participant"}
PaymentIds == 1..MaxPayments
Amounts == {50}
PaymentStatuses == {"succeeded", "failed"}

\* ------------------------------------------------- error messages thrown
OK == "ok"
SessionNotFound == "Session not found"
SessionEnded == "Session has ended"
Unauthorized == "Unauthorized"
CapacityExceeded == "Session is full"
NotAMember == "User not found"
Forbidden == "Only coaches can mute users"
NotInSession == "Not in session"
PaymentNotFound == "Payment not found"
Muted == "User is muted"
FeedbackBeforeEnd == "Cannot give feedback before session ends"
ExternalFailure == "external call failed"
\* Error kinds of the design that no throw statement of the service produces.
InvalidTransition == "InvalidTransition"
AlreadyMember == "AlreadyMember"

\* ------------------------------------------------------------------- state
VARIABLES
    sessions,     \* Session table: sequence of rows, primary key = index
    users,        \* User (participant) table: set of rows with their own id
    nextUserId,   \* auto-increment key of the User table
    feedbacks,    \* Feedback table: sequence of rows
    payments,     \* Payment table: sequence of rows, primary key = index
    events,       \* everything handed to WebSocketServer.broadcast, in order
    calls,        \* the service calls in flight or completed and not yet returned
    issued,       \* number of calls issued so far
    endedOk       \* session ids for which an endSession call has succeeded

vars == <<sessions, users, nextUserId, feedbacks, payments, events, calls, issued, endedOk>>

\* The value findByPk / findOne resolve to when no row matches (null).
NoSession == [coachId |-> 0, status |-> "none", capacity |-> 0, users |-> <<>>]
NoUser == [id |-> 0, sessionId |-> 0, userId |-> 0, role |-> "none", isMuted |-> FALSE]

\* Session.findByPk(sessionId)
findByPk(sessionId) ==
    IF sessionId \in DOMAIN sessions THEN sessions[sessionId] ELSE NoSession

\* The rows User.findOne({ where: { sessionId, userId } }) may resolve to: any
\* matching row (the query states no order), or null when none matches.
findOne(sessionId, userId) ==
    LET rows == {u \in users : u.sessionId = sessionId /\ u.userId = userId}
    IN  IF rows = {} THEN {NoUser} ELSE rows

\* The roster of a session: its rows of the User table.
Roster(sessionId) == {u \in users : u.sessionId = sessionId}

\* The events published for one session, in publication order.
EventsOf(sessionId) == SelectSeq(events, LAMBDA e : e.sessionId = sessionId)

Event(sessionId, type, user, message) ==
    [sessionId |-> sessionId, type |-> type, user |-> user, message |-> message]

\* _validateSession: the error it throws for a loaded row, or OK.
validateSession(session) ==
    IF session = NoSession THEN SessionNotFound
    ELSE IF session.status = "ended" THEN SessionEnded
    ELSE OK

\* ------------------------------------------------------------- call records
NewCall(op, sessionId, userId, role, arg, pc) ==
    [id |-> issued + 1, op |-> op, sessionId |-> sessionId, userId |-> userId,
     role |-> role, arg |-> arg, pc |-> pc,
     session |-> NoSession, user |-> NoUser, res |-> "pending"]

Update(c, d) == calls' = (calls \ {c}) \cup {d}

Done(c, res) == [c EXCEPT !.pc = "done", !.res = res]

CanIssue == issued < MaxCalls /\ Cardinality(calls) < MaxInFlight

Issue(c) ==
    /\ CanIssue
    /\ calls' = calls \cup {c}
    /\ issued' = issued + 1
    /\ UNCHANGED <<sessions, users, nextUserId, feedbacks, payments, events, endedOk>>

\* A completed call is handed back to its caller.
Return ==
    \E c \in calls :
        /\ c.pc = "done"
        /\ calls' = calls \ {c}
        /\ UNCHANGED <<sessions, users, nextUserId, feedbacks, payments, events, issued, endedOk>>

\* ------------------------------------------------------------ createSession
CallCreateSession ==
    \E coachId \in Users, capacity \in Capacities :
        Issue(NewCall("createSession", 0, coachId, "none", capacity, "create"))

\* Session.create({...sessionData, coachId, status: 'scheduled', users: []})
CreateSessionCreate ==
    \E c \in calls :
        /\ c.op = "createSession" /\ c.pc = "create"
        /\ Len(sessions) < MaxSessions
        /\ sessions' = Append(sessions,
               [coachId |-> c.userId, status |-> "scheduled",
                capacity |-> c.arg, users |-> <<>>])
        /\ Update(c, [c EXCEPT !.pc = "paymentLink", !.sessionId = Len(sessions) + 1])
        /\ UNCHANGED <<users, nextUserId, feedbacks, payments, events, issued, endedOk>>

\* Variant of CreateSessionPaymentLink that removes the session record again
\* when the payment link cannot be created.
CreateSessionPaymentLinkRollback ==
    \E c \in calls, fails \in BOOLEAN :
        /\ c.op = "createSession" /\ c.pc = "paymentLink"
        /\ Update(c, IF fails THEN Done(c, ExternalFailure)
                              ELSE [c EXCEPT !.pc = "channel"])
        /\ sessions' = IF fails THEN [sessions EXCEPT ![c.sessionId] = NoSession]
                       ELSE sessions
        /\ UNCHANGED <<users, nextUserId, feedbacks, payments, events, issued, endedOk>>

\* stripe.paymentLinks.create: resolves, or rejects and createSession throws.
CreateSessionPaymentLink ==
    \E c \in calls, fails \in BOOLEAN :
        /\ c.op = "createSession" /\ c.pc = "paymentLink"
        /\ Update(c, IF fails THEN Done(c, ExternalFailure)
                              ELSE [c EXCEPT !.pc = "channel"])
        /\ UNCHANGED <<sessions, users, nextUserId, feedbacks, payments, events, issued, endedOk>>

\* agora.createChannel: resolves (createSession returns), or rejects.
CreateSessionChannel ==
    \E c \in calls, fails \in BOOLEAN :
        /\ c.op = "createSession" /\ c.pc = "channel"
        /\ Update(c, IF fails THEN Done(c, ExternalFailure) ELSE Done(c, OK))
        /\ UNCHANGED <<sessions, users, nextUserId, feedbacks, payments, events, issued, endedOk>>

\* ------------------------------------------------- startSession / endSession
CallStartSession ==
    \E sessionId \in SessionIds, coachId \in Users :
        Issue(NewCall("startSession", sessionId, coachId, "none", 0, "validate"))

CallEndSession ==
    \E sessionId \in SessionIds, coachId \in Users :
        Issue(NewCall("endSession", sessionId, coachId, "none", 0, "validate"))

\* The check of lines 30-31 / 41-42 on the loaded row: the error thrown, or OK.
transitionCheck(session, coachId) ==
    IF validateSession(session) # OK THEN validateSession(session)
    ELSE IF session.coachId # coachId THEN Unauthorized
    ELSE OK

\* Variant of TransitionValidate that writes the target status as soon as the
\* session has passed _validateSession, before the coach check.
TransitionValidateWritesFirst(op) ==
    \E c \in calls :
        /\ c.op = op /\ c.pc = "validate"
        /\ LET session == findByPk(c.sessionId)
               d == [c EXCEPT !.session = session]
               err == transitionCheck(session, c.userId)
           IN  /\ Update(c, IF err # OK THEN Done(d, err) ELSE [d EXCEPT !.pc = "save"])
               /\ sessions' =
                      IF validateSession(session) = OK
                      THEN [sessions EXCEPT ![c.sessionId].status =
                                IF op = "startSession" THEN "active" ELSE "ended"]
                      ELSE sessions
        /\ UNCHANGED <<users, nextUserId, feedbacks, payments, events, issued, endedOk>>

\* await this._validateSession(sessionId), then the coach check.
TransitionValidate(op) ==
    \E c \in calls :
        /\ c.op = op /\ c.pc = "validate"
        /\ LET session == findByPk(c.sessionId)
               d == [c EXCEPT !.session = session]
               err == transitionCheck(session, c.userId)
           IN  Update(c, IF err # OK THEN Done(d, err) ELSE [d EXCEPT !.pc = "save"])
        /\ UNCHANGED <<sessions, users, nextUserId, feedbacks, payments, events, issued, endedOk>>

\* session.status = <target>; await session.save(): the loaded instance writes
\* its status to its row.  The call record keeps the row as it was loaded.
TransitionSave(op, target) ==
    \E c \in calls :
        /\ c.op = op /\ c.pc = "save"
        /\ sessions' = [sessions EXCEPT ![c.sessionId].status = target]
        /\ Update(c, [c EXCEPT !.pc = "broadcast"])
        /\ UNCHANGED <<users, nextUserId, feedbacks, payments, events, issued, endedOk>>

\* WebSocketServer.broadcast(sessionId, <event>); return session.
TransitionBroadcast(op, type) ==
    \E c \in calls :
        /\ c.op = op /\ c.pc = "broadcast"
        /\ events' = Append(events, Event(c.sessionId, type, NoUser, 0))
        /\ endedOk' = IF op = "endSession" THEN endedOk \cup {c.sessionId} ELSE endedOk
        /\ Update(c, Done(c, OK))
        /\ UNCHANGED <<sessions, users, nextUserId, feedbacks, payments, issued>>

StartSessionValidate == TransitionValidate("startSession")
StartSessionSave == TransitionSave("startSession", "active")
StartSessionBroadcast == TransitionBroadcast("startSession", "session_started")
EndSessionValidate == TransitionValidate("endSession")
EndSessionSave == TransitionSave("endSession", "ended")
EndSessionBroadcast == TransitionBroadcast("endSession", "session_ended")

\* -------------------------------------------------------------- joinSession
CallJoinSession ==
    \E sessionId \in SessionIds, userId \in Users, role \in Roles :
        Issue(NewCall("joinSession", sessionId, userId, role, 0, "validate"))

\* Variant of joinCheck that admits joins only while the session is active.
joinCheckActiveOnly(session) ==
    IF session = NoSession THEN SessionNotFound
    ELSE IF session.status # "active" THEN SessionEnded
    ELSE IF Len(session.users) >= session.capacity THEN CapacityExceeded
    ELSE OK

\* Lines 53-57 on the loaded row: _validateSession, then the capacity check,
\* which reads the row's own `users` field.
joinCheck(session) ==
    IF validateSession(session) # OK THEN validateSession(session)
    ELSE IF Len(session.users) >= session.capacity THEN CapacityExceeded
    ELSE OK

JoinSessionValidate ==
    \E c \in calls :
        /\ c.op = "joinSession" /\ c.pc = "validate"
        /\ LET session == findByPk(c.sessionId)
               d == [c EXCEPT !.session = session]
               err == joinCheck(session)
           IN  Update(c, IF err # OK THEN Done(d, err) ELSE [d EXCEPT !.pc = "create"])
        /\ UNCHANGED <<sessions, users, nextUserId, feedbacks, payments, events, issued, endedOk>>

\* The row User.create({sessionId, userId, role, joinedAt, isMuted: false}) inserts.
newUser(id, sessionId, userId, role) ==
    [id |-> id, sessionId |-> sessionId, userId |-> userId, role |-> role,
     isMuted |-> FALSE]

\* Variant of JoinSessionCreate that returns the user without waiting for the
\* broadcast of line 67.
JoinSessionCreateDetached ==
    \E c \in calls :
        /\ c.op = "joinSession" /\ c.pc = "create"
        /\ LET user == newUser(nextUserId, c.sessionId, c.userId, c.role)
           IN  /\ users' = users \cup {user}
               /\ Update(c, Done([c EXCEPT !.user = user], OK))
        /\ nextUserId' = nextUserId + 1
        /\ UNCHANGED <<sessions, feedbacks, payments, events, issued, endedOk>>

JoinSessionCreate ==
    \E c \in calls :
        /\ c.op = "joinSession" /\ c.pc = "create"
        /\ LET user == newUser(nextUserId, c.sessionId, c.userId, c.role)
           IN  /\ users' = users \cup {user}
               /\ Update(c, [c EXCEPT !.pc = "broadcast", !.user = user])
        /\ nextUserId' = nextUserId + 1
        /\ UNCHANGED <<sessions, feedbacks, payments, events, issued, endedOk>>

JoinSessionBroadcast ==
    \E c \in calls :
        /\ c.op = "joinSession" /\ c.pc = "broadcast"
        /\ events' = Append(events, Event(c.sessionId, "user_joined", c.user, 0))
        /\ Update(c, Done(c, OK))
        /\ UNCHANGED <<sessions, users, nextUserId, feedbacks, payments, issued, endedOk>>

\* ------------------------------------------------------------- leaveSession
CallLeaveSession ==
    \E sessionId \in SessionIds, userId \in Users :
        Issue(NewCall("leaveSession", sessionId, userId, "none", 0, "findUser"))

LeaveSessionFindUser ==
    \E c \in calls :
        /\ c.op = "leaveSession" /\ c.pc = "findUser"
        /\ \E user \in findOne(c.sessionId, c.userId) :
               Update(c, IF user = NoUser THEN Done(c, NotAMember)
                         ELSE [c EXCEPT !.pc = "destroy", !.user = user])
        /\ UNCHANGED <<sessions, users, nextUserId, feedbacks, payments, events, issued, endedOk>>

\* await user.destroy(): deletes the row with the instance's key, if still there.
LeaveSessionDestroy ==
    \E c \in calls :
        /\ c.op = "leaveSession" /\ c.pc = "destroy"
        /\ users' = {u \in users : u.id # c.user.id}
        /\ Update(c, [c EXCEPT !.pc = "broadcast"])
        /\ UNCHANGED <<sessions, nextUserId, feedbacks, payments, events, issued, endedOk>>

LeaveSessionBroadcast ==
    \E c \in calls :
        /\ c.op = "leaveSession" /\ c.pc = "broadcast"
        /\ events' = Append(events,
               Event(c.sessionId, "user_left", [NoUser EXCEPT !.userId = c.userId], 0))
        /\ Update(c, Done(c, OK))
        /\ UNCHANGED <<sessions, users, nextUserId, feedbacks, payments, issued, endedOk>>

\* --------------------------------------------------------------- toggleMute
CallToggleMute ==
    \E sessionId \in SessionIds, userId \in Users, mutedBy \in Users :
        Issue(NewCall("toggleMute", sessionId, userId, "none", mutedBy, "load"))

\* Variant of muteCheck that lets only the session's coach toggle anyone.
muteCheckCoachOnly(user, session, mutedBy) ==
    IF user = NoUser THEN NotAMember
    ELSE IF session.coachId # mutedBy THEN Forbidden
    ELSE OK

\* Lines 88-91 once both promises of Promise.all have resolved.
muteCheck(user, session, mutedBy) ==
    IF user = NoUser THEN NotAMember
    ELSE IF session.coachId # mutedBy /\ user.role = "coach" THEN Forbidden
    ELSE OK

AfterLoad(c) ==
    LET err == muteCheck(c.user, c.session, c.arg)
    IN  IF err # OK THEN Done(c, err) ELSE [c EXCEPT !.pc = "save"]

\* User.findOne of the Promise.all; it may resolve before or after the validation.
ToggleMuteFindUser ==
    \E c \in calls :
        /\ c.op = "toggleMute" /\ c.pc \in {"load", "loadUser"}
        /\ \E user \in findOne(c.sessionId, c.userId) :
               LET d == [c EXCEPT !.user = user]
               IN  Update(c, IF c.pc = "load" THEN [d EXCEPT !.pc = "loadSession"]
                             ELSE AfterLoad(d))
        /\ UNCHANGED <<sessions, users, nextUserId, feedbacks, payments, events, issued, endedOk>>

\* this._validateSession of the Promise.all; its rejection rejects the whole.
ToggleMuteValidate ==
    \E c \in calls :
        /\ c.op = "toggleMute" /\ c.pc \in {"load", "loadSession"}
        /\ LET session == findByPk(c.sessionId)
               d == [c EXCEPT !.session = session]
               err == validateSession(session)
           IN  Update(c, IF err # OK THEN Done(d, err)
                         ELSE IF c.pc = "load" THEN [d EXCEPT !.pc = "loadUser"]
                         ELSE AfterLoad(d))
        /\ UNCHANGED <<sessions, users, nextUserId, feedbacks, payments, events, issued, endedOk>>

\* user.isMuted = !user.isMuted; await user.save(): the loaded instance writes
\* the negation of the flag it loaded to its row, if the row is still there.
ToggleMuteSave ==
    \E c \in calls :
        /\ c.op = "toggleMute" /\ c.pc = "save"
        /\ users' = {IF u.id = c.user.id THEN [u EXCEPT !.isMuted = ~c.user.isMuted]
                     ELSE u : u \in users}
        /\ Update(c, [c EXCEPT !.pc = "broadcast", !.user.isMuted = ~c.user.isMuted])
        /\ UNCHANGED <<sessions, nextUserId, feedbacks, payments, events, issued, endedOk>>

ToggleMuteBroadcast ==
    \E c \in calls :
        /\ c.op = "toggleMute" /\ c.pc = "broadcast"
        /\ events' = Append(events, Event(c.sessionId, "user_updated", c.user, 0))
        /\ Update(c, Done(c, OK))
        /\ UNCHANGED <<sessions, users, nextUserId, feedbacks, payments, issued, endedOk>>

\* -------------------------------------------------------------- sendMessage
CallSendMessage ==
    \E sessionId \in SessionIds, userId \in Users, message \in Messages :
        Issue(NewCall("sendMessage", sessionId, userId, "none", message, "findUser"))

\* Variant of messageCheck that leaves out the muted test of line 104.
messageCheckIgnoresMute(user) ==
    IF user = NoUser THEN NotInSession ELSE OK

\* Lines 103-104 on the row findOne resolved to.
messageCheck(user) ==
    IF user = NoUser THEN NotInSession
    ELSE IF user.isMuted THEN Muted
    ELSE OK

SendMessageFindUser ==
    \E c \in calls :
        /\ c.op = "sendMessage" /\ c.pc = "findUser"
        /\ \E user \in findOne(c.sessionId, c.userId) :
               LET d == [c EXCEPT !.user = user]
                   err == messageCheck(user)
               IN  Update(c, IF err # OK THEN Done(d, err)
                             ELSE [d EXCEPT !.pc = "broadcast"])
        /\ UNCHANGED <<sessions, users, nextUserId, feedbacks, payments, events, issued, endedOk>>

\* messageData = { userId, message, timestamp }; the timestamp is not modelled.
messageData(c) ==
    Event(c.sessionId, "new_message", [NoUser EXCEPT !.userId = c.userId], c.arg)

SendMessageBroadcast ==
    \E c \in calls :
        /\ c.op = "sendMessage" /\ c.pc = "broadcast"
        /\ events' = Append(events, messageData(c))
        /\ Update(c, Done(c, OK))
        /\ UNCHANGED <<sessions, users, nextUserId, feedbacks, payments, issued, endedOk>>

\* ----------------------------------------------------------- submitFeedback
CallSubmitFeedback ==
    \E sessionId \in SessionIds, userId \in Users :
        Issue(NewCall("submitFeedback", sessionId, userId, "none", 0, "validate"))

SubmitFeedbackValidate ==
    \E c \in calls :
        /\ c.op = "submitFeedback" /\ c.pc = "validate"
        /\ LET session == findByPk(c.sessionId)
               d == [c EXCEPT !.session = session]
               err == validateSession(session)
           IN  Update(c, IF err # OK THEN Done(d, err) ELSE [d EXCEPT !.pc = "create"])
        /\ UNCHANGED <<sessions, users, nextUserId, feedbacks, payments, events, issued, endedOk>>

\* Line 147 on the validated row, then Feedback.create.
SubmitFeedbackCreate ==
    \E c \in calls :
        /\ c.op = "submitFeedback" /\ c.pc = "create"
        /\ IF c.session.status # "ended"
           THEN /\ Update(c, Done(c, FeedbackBeforeEnd))
                /\ UNCHANGED feedbacks
           ELSE /\ feedbacks' = Append(feedbacks,
                       [sessionId |-> c.sessionId, userId |-> c.userId])
                /\ Update(c, Done(c, OK))
        /\ UNCHANGED <<sessions, users, nextUserId, payments, events, issued, endedOk>>

\* ----------------------------------------------------------- processPayment
CallProcessPayment ==
    \E sessionId \in SessionIds, userId \in Users, amount \in Amounts :
        Issue(NewCall("processPayment", sessionId, userId, "none", amount, "validate"))

ProcessPaymentValidate ==
    \E c \in calls :
        /\ c.op = "processPayment" /\ c.pc = "validate"
        /\ LET session == findByPk(c.sessionId)
               d == [c EXCEPT !.session = session]
               err == validateSession(session)
           IN  Update(c, IF err # OK THEN Done(d, err)
                         ELSE [d EXCEPT !.pc = "paymentIntent"])
        /\ UNCHANGED <<sessions, users, nextUserId, feedbacks, payments, events, issued, endedOk>>

\* stripe.paymentIntents.create: resolves, or rejects and processPayment throws.
ProcessPaymentIntent ==
    \E c \in calls, fails \in BOOLEAN :
        /\ c.op = "processPayment" /\ c.pc = "paymentIntent"
        /\ Update(c, IF fails THEN Done(c, ExternalFailure)
                              ELSE [c EXCEPT !.pc = "create"])
        /\ UNCHANGED <<sessions, users, nextUserId, feedbacks, payments, events, issued, endedOk>>

\* Variant of newPayment that records the payment as already succeeded.
newPaymentSucceeded(sessionId, userId, amount) ==
    [sessionId |-> sessionId, userId |-> userId, amount |-> amount,
     status |-> "succeeded"]

\* The row Payment.create({sessionId, userId, amount, status: 'pending', ...}) inserts.
newPayment(sessionId, userId, amount) ==
    [sessionId |-> sessionId, userId |-> userId, amount |-> amount,
     status |-> "pending"]

ProcessPaymentCreate ==
    \E c \in calls :
        /\ c.op = "processPayment" /\ c.pc = "create"
        /\ payments' = Append(payments, newPayment(c.sessionId, c.userId, c.arg))
        /\ Update(c, Done(c, OK))
        /\ UNCHANGED <<sessions, users, nextUserId, feedbacks, events, issued, endedOk>>

\* ----------------------------------------------------------- confirmPayment
\* The status to set travels in the call record's string slot.
CallConfirmPayment ==
    \E paymentId \in PaymentIds, status \in PaymentStatuses :
        Issue(NewCall("confirmPayment", 0, 0, status, paymentId, "findPayment"))

\* Payment.findByPk(paymentId); throws when it resolves to null.
ConfirmPaymentFind ==
    \E c \in calls :
        /\ c.op = "confirmPayment" /\ c.pc = "findPayment"
        /\ Update(c, IF c.arg \in DOMAIN payments THEN [c EXCEPT !.pc = "save"]
                     ELSE Done(c, PaymentNotFound))
        /\ UNCHANGED <<sessions, users, nextUserId, feedbacks, payments, events, issued, endedOk>>

\* payment.status = status; await payment.save()
ConfirmPaymentSave ==
    \E c \in calls :
        /\ c.op = "confirmPayment" /\ c.pc = "save"
        /\ payments' = [payments EXCEPT ![c.arg].status = c.role]
        /\ Update(c, Done(c, OK))
        /\ UNCHANGED <<sessions, users, nextUserId, feedbacks, events, issued, endedOk>>

\* ------------------------------------------------------------ specification
Init ==
    /\ sessions = <<>>
    /\ users = {}
    /\ nextUserId = 1
    /\ feedbacks = <<>>
    /\ payments = <<>>
    /\ events = <<>>
    /\ calls = {}
    /\ issued = 0
    /\ endedOk = {}

Next ==
    \/ CallCreateSession
    \/ CreateSessionCreate
    \/ CreateSessionPaymentLink
    \/ CreateSessionChannel
    \/ CallStartSession
    \/ StartSessionValidate
    \/ StartSessionSave
    \/ StartSessionBroadcast
    \/ CallEndSession
    \/ EndSessionValidate
    \/ EndSessionSave
    \/ EndSessionBroadcast
    \/ CallJoinSession
    \/ JoinSessionValidate
    \/ JoinSessionCreate
    \/ JoinSessionBroadcast
    \/ CallLeaveSession
    \/ LeaveSessionFindUser
    \/ LeaveSessionDestroy
    \/ LeaveSessionBroadcast
    \/ CallToggleMute
    \/ ToggleMuteFindUser
    \/ ToggleMuteValidate
    \/ ToggleMuteSave
    \/ ToggleMuteBroadcast
    \/ CallSendMessage
    \/ SendMessageFindUser
    \/ SendMessageBroadcast
    \/ CallSubmitFeedback
    \/ SubmitFeedbackValidate
    \/ SubmitFeedbackCreate
    \/ CallProcessPayment
    \/ ProcessPaymentValidate
    \/ ProcessPaymentIntent
    \/ ProcessPaymentCreate
    \/ CallConfirmPayment
    \/ ConfirmPaymentFind
    \/ ConfirmPaymentSave
    \/ Return

Spec == Init /\ [][Next]_vars

\* =================================================================== claims
DoneCalls(op) == {c \in calls : c.op = op /\ c.pc = "done"}

\* C1: in every reachable state the number of participant records of a
\* session is at most the session's capacity.
C1_CapacityRespected ==
    \A s \in DOMAIN sessions : Cardinality(Roster(s)) <= sessions[s].capacity

\* C2: when more joinSession calls than the capacity C, by distinct users, run
\* concurrently against a non-ended session in which nobody else ever joined,
\* exactly C of them succeed and all the others fail with CapacityExceeded.
JoinCalls(s) == {c \in calls : c.op = "joinSession" /\ c.sessionId = s}

C2_ConcurrentJoinsAdmitExactlyCapacity ==
    \A s \in DOMAIN sessions :
        LET J == JoinCalls(s)
            ok == {c \in J : c.res = OK}
            full == {c \in J : c.res = CapacityExceeded}
        IN  (/\ \A c \in J : c.pc = "done" /\ c.session.status \in {"scheduled", "active"}
             /\ \A c, d \in J : c.userId = d.userId => c = d
             /\ Cardinality(J) > sessions[s].capacity
             /\ nextUserId = 1 + Cardinality(ok))
            => /\ Cardinality(ok) = sessions[s].capacity
               /\ Cardinality(full) = Cardinality(J) - sessions[s].capacity

\* C3: the stored status of a session never moves from active back to
\* scheduled and never leaves ended.
C3_StatusMonotonic ==
    [][\A s \in DOMAIN sessions :
          /\ sessions[s].status = "active" => sessions'[s].status # "scheduled"
          /\ sessions[s].status = "ended" => sessions'[s].status = "ended"]_vars

\* C4: once endSession has succeeded for a session, its roster (members and
\* muted flags) no longer changes and no new_message, user_joined or
\* user_updated event is published for it.
MutationEvents(s) ==
    SelectSeq(events, LAMBDA e : e.sessionId = s /\
                  e.type \in {"new_message", "user_joined", "user_updated"})

C4_NoMutationAfterEnd ==
    [][\A s \in endedOk :
          /\ Roster(s)' = Roster(s)
          /\ MutationEvents(s)' = MutationEvents(s)]_vars

\* C5: submitFeedback succeeds, creating a feedback record, exactly when the
\* session exists and its status is ended.
C5_FeedbackIffEnded ==
    \A c \in DoneCalls("submitFeedback") :
        (c.res = OK) <=> (c.session # NoSession /\ c.session.status = "ended")

\* C6: startSession on an existing session succeeds only for the coach and only
\* from scheduled; the coach's start from any other status fails with
\* InvalidTransition, and another actor's start of a scheduled session fails
\* with Unauthorized.
C6_StartOnlyFromScheduled ==
    \A c \in DoneCalls("startSession") :
        c.session # NoSession =>
            /\ c.res = OK =>
                   c.userId = c.session.coachId /\ c.session.status = "scheduled"
            /\ (c.userId = c.session.coachId /\ c.session.status # "scheduled")
                   => c.res = InvalidTransition
            /\ (c.userId # c.session.coachId /\ c.session.status = "scheduled")
                   => c.res = Unauthorized

\* C7: endSession by the coach succeeds from scheduled and from active, by any
\* other actor on a non-ended session it fails with Unauthorized, and on a
\* session that is already ended the coach's call fails with InvalidTransition.
C7_EndTransition ==
    \A c \in DoneCalls("endSession") :
        c.session # NoSession =>
            /\ (c.userId = c.session.coachId /\ c.session.status # "ended")
                   => c.res = OK
            /\ (c.userId # c.session.coachId /\ c.session.status # "ended")
                   => c.res = Unauthorized
            /\ (c.userId = c.session.coachId /\ c.session.status = "ended")
                   => c.res = InvalidTransition

\* C8: within one session no two participant records share the same userId.
C8_UniqueMembers ==
    \A u, v \in users :
        (u.sessionId = v.sessionId /\ u.userId = v.userId) => u = v

\* C9: toggleMute on a non-ended session whose target is a member succeeds
\* exactly when the actor is the session's coach or the target's role is not
\* coach, and then writes the negation of the target's muted flag to the
\* target's record and to no other; otherwise it fails with Forbidden and no
\* muted flag changes.
ToggleCalls == {c \in calls : c.op = "toggleMute"}

MayMute(c) == c.arg = c.session.coachId \/ c.user.role # "coach"

TargetLoaded(c) == c.session.status \in {"scheduled", "active"} /\ c.user # NoUser

C9_Decision ==
    \A c \in ToggleCalls :
        /\ (c.pc = "done" /\ TargetLoaded(c)) =>
               /\ c.res = OK <=> MayMute(c)
               /\ c.res = Forbidden <=> ~MayMute(c)
        /\ c.pc \in {"save", "broadcast"} => TargetLoaded(c) /\ MayMute(c)

C9_Effect ==
    \A c \in ToggleCalls :
        c \notin calls' =>
            IF c.pc = "save"
            THEN /\ \A u \in users :
                        IF u.id = c.user.id
                        THEN [u EXCEPT !.isMuted = ~c.user.isMuted] \in users'
                        ELSE u \in users'
                 /\ \A u \in users :
                        (u.id = c.user.id /\ u.isMuted = c.user.isMuted)
                            => [u EXCEPT !.isMuted = ~u.isMuted] \in users'
                 /\ Cardinality(users') = Cardinality(users)
            ELSE users' = users

C9_MuteAuthorization == []C9_Decision /\ [][C9_Effect]_vars

\* A non-coach was refused on the coach-role target and the coach then muted
\* that same target: the stored flag is set.
C9_Witness ==
    \E c, d \in DoneCalls("toggleMute") :
        /\ c.res = Forbidden /\ c.arg # c.session.coachId
        /\ d.res = OK /\ d.arg = d.session.coachId
        /\ d.user.id = c.user.id /\ d.user.role = "coach"
        /\ d.user \in users /\ d.user.isMuted

\* C10: sendMessage fails with NotInSession when the sender has no participant
\* record and with Muted when the sender's record is muted, publishing nothing;
\* for an unmuted participant it publishes exactly one new_message event with
\* that sender and body; it never changes the roster, a muted flag or a session.
SenderRows(c) == {u \in users : u.sessionId = c.sessionId /\ u.userId = c.userId}

NewMessage(c) ==
    [sessionId |-> c.sessionId, type |-> "new_message",
     user |-> [NoUser EXCEPT !.userId = c.userId], message |-> c.arg]

C10_Step ==
    /\ \A c \in calls :
           (c.op = "sendMessage" /\ c \notin calls') =>
               /\ users' = users /\ sessions' = sessions
               /\ c.pc = "findUser" =>
                      /\ events' = events
                      /\ \E d \in calls' :
                             /\ d.id = c.id
                             /\ SenderRows(c) = {} =>
                                    d.pc = "done" /\ d.res = NotInSession
                             /\ (SenderRows(c) # {} /\ \A u \in SenderRows(c) : u.isMuted)
                                    => d.pc = "done" /\ d.res = Muted
                             /\ (SenderRows(c) # {} /\ \A u \in SenderRows(c) : ~u.isMuted)
                                    => d.pc = "broadcast"
               /\ c.pc = "broadcast" =>
                      /\ events' = Append(events, NewMessage(c))
                      /\ \E d \in calls' : d.id = c.id /\ d.pc = "done" /\ d.res = OK
               /\ c.pc = "done" => events' = events
    /\ (events' # events /\ events'[Len(events')].type = "new_message") =>
           \E c \in calls :
               c.op = "sendMessage" /\ c.pc = "broadcast" /\ c \notin calls'

C10_SendMessage == [][C10_Step]_vars

\* A participant muted by toggleMute sent a message: the call failed with
\* Muted and no new_message event exists.
C10_Witness ==
    \E c \in DoneCalls("sendMessage") :
        /\ c.res = Muted
        /\ c.user \in users /\ c.user.isMuted
        /\ \A i \in DOMAIN events : events[i].type # "new_message"

\* C11: of two leaveSession calls that found the same participant record,
\* exactly one succeeds and the other fails with NotAMember; a leaveSession
\* that finds no record fails with NotAMember.
C11_LeaveSucceedsOnce ==
    /\ \A c \in DoneCalls("leaveSession") :
           c.user = NoUser => c.res = NotAMember
    /\ \A c, d \in DoneCalls("leaveSession") :
           (c # d /\ c.user # NoUser /\ c.user.id = d.user.id)
               => ~(c.res = OK /\ d.res = OK)

\* C12: in every reachable state in which a session's status is ended, the
\* session has no participant records.
C12_NoParticipantOutlivesSession ==
    \A s \in DOMAIN sessions :
        sessions[s].status = "ended" => Roster(s) = {}

\* C13 (as stated): for two successful joinSession / toggleMute calls on one
\* session, the event of the call issued first is published before the event
\* of the call issued later.
IsEventOf(c, e) ==
    /\ e.sessionId = c.sessionId
    /\ IF c.op = "joinSession"
       THEN e.type = "user_joined" /\ e.user.id = c.user.id
       ELSE e.type = "user_updated" /\ e.user = c.user

C13_IssueOrder ==
    \A c, d \in DoneCalls("joinSession") \cup DoneCalls("toggleMute") :
        (c.id < d.id /\ c.sessionId = d.sessionId /\ c.res = OK /\ d.res = OK)
            => \E i, j \in DOMAIN events :
                   i < j /\ IsEventOf(c, events[i]) /\ IsEventOf(d, events[j])

\* C13 (amended): every successful operation has published its event when it
\* completes, and every publication is appended after all earlier ones; so
\* the events of operations issued one after the other (each after the
\* previous one returned) appear in the order of issue.
Publishes == {"startSession", "endSession", "joinSession", "leaveSession",
              "toggleMute", "sendMessage"}

EventOf(c) ==
    CASE c.op = "startSession" -> Event(c.sessionId, "session_started", NoUser, 0)
      [] c.op = "endSession" -> Event(c.sessionId, "session_ended", NoUser, 0)
      [] c.op = "joinSession" -> Event(c.sessionId, "user_joined", c.user, 0)
      [] c.op = "leaveSession" ->
             Event(c.sessionId, "user_left", [NoUser EXCEPT !.userId = c.userId], 0)
      [] c.op = "toggleMute" -> Event(c.sessionId, "user_updated", c.user, 0)
      [] OTHER ->
             Event(c.sessionId, "new_message", [NoUser EXCEPT !.userId = c.userId], c.arg)

C13_PublishedBeforeReturn ==
    \A c \in calls :
        (c.op \in Publishes /\ c.pc = "done" /\ c.res = OK)
            => \E i \in DOMAIN events : events[i] = EventOf(c)

C13_AppendOnly ==
    events' # events =>
        \E d \in calls :
            /\ d.op \in Publishes /\ d.pc = "broadcast" /\ d \notin calls'
            /\ events' = Append(events, EventOf(d))

C13_CompletionOrder == []C13_PublishedBeforeReturn /\ [][C13_AppendOnly]_vars

\* join(A), join(B), toggleMute(A) ran one after the other and the session's
\* events are user_joined(A), user_joined(B), user_updated(A), in that order.
C13_Witness ==
    /\ Len(events) = 3
    /\ events[1].type = "user_joined" /\ events[2].type = "user_joined"
    /\ events[1].user.userId # events[2].user.userId
    /\ events[3].type = "user_updated"
    /\ events[3].user.id = events[1].user.id /\ events[3].user.isMuted
    /\ calls = {}

\* C14: concurrent mutating calls behave as if run one at a time; in particular
\* two successful toggleMute calls on the same participant record, the only
\* two ever run on it, leave its muted flag at the value it was created with.
UpdatesOf(id) ==
    {i \in DOMAIN events : events[i].type = "user_updated" /\ events[i].user.id = id}

C14_NoLostToggle ==
    \A c, d \in DoneCalls("toggleMute") :
        (/\ c # d /\ c.res = OK /\ d.res = OK
         /\ c.user.id = d.user.id
         /\ Cardinality(UpdatesOf(c.user.id)) = 2)
            => \A u \in users : u.id = c.user.id => ~u.isMuted

\* C15: a startSession, endSession, joinSession, leaveSession, toggleMute,
\* sendMessage, processPayment or submitFeedback call for a session identifier
\* for which no session exists fails with SessionNotFound.
SessionScoped == {"startSession", "endSession", "joinSession", "leaveSession",
                  "toggleMute", "sendMessage", "processPayment", "submitFeedback"}

C15_MissingSessionRejected ==
    \A c \in calls :
        (c.op \in SessionScoped /\ c.pc = "done" /\ c.sessionId \notin DOMAIN sessions)
            => c.res = SessionNotFound

\* C16: an event session_started, session_ended, user_joined, user_left or
\* user_updated is published only by a call that is past its store write, and
\* that write has taken effect: the status is written, the participant record
\* inserted, the participant record gone, the muted flag written.
Mutating == {"startSession", "endSession", "joinSession", "leaveSession", "toggleMute"}

ChangeTakesEffect(c) ==
    CASE c.op = "startSession" -> sessions'[c.sessionId].status = "active"
      [] c.op = "endSession" -> sessions'[c.sessionId].status = "ended"
      [] c.op = "joinSession" ->
             \E u \in users' \ users :
                 u.sessionId = c.sessionId /\ u.userId = c.userId
      [] c.op = "leaveSession" -> \A u \in users' : u.id # c.user.id
      [] OTHER ->
             \E u \in users' : u.id = c.user.id /\ u.isMuted = ~c.user.isMuted

C16_Step ==
    /\ \A c \in calls :
           (c.op \in Mutating /\ c \notin calls'
                /\ c.pc \in {"save", "create", "destroy"})
               => ChangeTakesEffect(c)
    /\ (events' # events /\ events'[Len(events')].type # "new_message") =>
           \E c \in calls :
               c.op \in Mutating /\ c.pc = "broadcast" /\ c \notin calls'

C16_CommitBeforePublish == [][C16_Step]_vars

\* C17: joinSession is accepted in every non-ended state.  A completed join
\* whose loaded session was scheduled or active has succeeded, its participant
\* was inserted with muted flag false and its user_joined was published; a
\* completed join fails with SessionEnded exactly when its loaded session was
\* ended.  The insert step adds exactly the new unmuted record, the broadcast
\* step appends user_joined for it.
C17_Decision ==
    \A c \in DoneCalls("joinSession") :
        c.session # NoSession =>
            /\ c.session.status \in {"scheduled", "active"} =>
                   /\ c.res = OK
                   /\ c.user # NoUser /\ ~c.user.isMuted
                   /\ \E i \in DOMAIN events :
                          events[i] = Event(c.sessionId, "user_joined", c.user, 0)
            /\ (c.res = SessionEnded) <=> (c.session.status = "ended")

C17_Effect ==
    \A c \in calls :
        (c.op = "joinSession" /\ c \notin calls') =>
            /\ c.pc = "create" =>
                   users' = users \cup
                       {[id |-> nextUserId, sessionId |-> c.sessionId,
                         userId |-> c.userId, role |-> c.role, isMuted |-> FALSE]}
            /\ c.pc = "broadcast" =>
                   events' = Append(events,
                       [sessionId |-> c.sessionId, type |-> "user_joined",
                        user |-> c.user, message |-> 0])

C17_JoinInNonEndedStates == []C17_Decision /\ [][C17_Effect]_vars

\* A join made while the session was scheduled and one made while it was
\* active have both succeeded and both participants are stored unmuted.
C17_Witness ==
    \E c, d \in DoneCalls("joinSession") :
        /\ c.res = OK /\ d.res = OK
        /\ c.session # NoSession /\ d.session # NoSession
        /\ c.session.status = "scheduled" /\ d.session.status = "active"
        /\ {c.user, d.user} \subseteq users
        /\ ~c.user.isMuted /\ ~d.user.isMuted

\* C18: createSession writes the session record first, with status scheduled
\* and an empty roster, and never takes it back: once the record is written it
\* stays stored with the caller as coach, also after the payment-link call or
\* the video-channel call has failed and createSession has failed to its
\* caller; those two steps write nothing to the store.
CreateCalls == {c \in calls : c.op = "createSession"}

C18_Stored ==
    \A c \in CreateCalls :
        c.pc \in {"paymentLink", "channel", "done"} =>
            /\ c.sessionId \in DOMAIN sessions
            /\ sessions[c.sessionId] # NoSession
            /\ sessions[c.sessionId].coachId = c.userId
            /\ sessions[c.sessionId].capacity = c.arg

C18_Step ==
    \A c \in CreateCalls :
        c \notin calls' =>
            /\ c.pc = "create" =>
                   /\ sessions' = Append(sessions,
                          [coachId |-> c.userId, status |-> "scheduled",
                           capacity |-> c.arg, users |-> <<>>])
                   /\ \A u \in users' : u.sessionId # Len(sessions')
                   /\ \A d \in calls' : d.id = c.id => d.pc = "paymentLink"
            /\ c.pc \in {"paymentLink", "channel"} =>
                   /\ UNCHANGED <<sessions, users, events>>
                   /\ \A d \in calls' :
                          d.id = c.id =>
                              \/ d.pc = "done" /\ d.res \in {OK, ExternalFailure}
                              \/ c.pc = "paymentLink" /\ d.pc = "channel"

C18_CreateNotTransactional == []C18_Stored /\ [][C18_Step]_vars

\* createSession has failed to its caller on an external call and the record
\* it wrote is the only session stored, still scheduled.
C18_Witness ==
    \E c \in CreateCalls :
        /\ c.pc = "done" /\ c.res = ExternalFailure
        /\ Len(sessions) = 1
        /\ sessions[c.sessionId].status = "scheduled"
        /\ \A d \in CreateCalls : d.res # OK

\* C19: in startSession, endSession, joinSession, leaveSession, toggleMute and
\* sendMessage every check comes before the first write and before the
\* broadcast.  A call starts in its checks; a step of its checks changes no
\* session, no participant record and publishes nothing; a call fails only in
\* a step of its checks; once past them it never returns to them.  So a call
\* that fails has itself changed no status, roster or muted flag and has
\* published no event.
CheckPcs == {"validate", "findUser", "load", "loadUser", "loadSession"}

C19_Step ==
    /\ \A c \in calls :
           (c.op \in Publishes /\ c \notin calls') =>
               /\ c.pc \in CheckPcs => UNCHANGED <<sessions, users, events>>
               /\ \A d \in calls' :
                      d.id = c.id =>
                          /\ (d.pc = "done" /\ d.res # OK /\ c.pc # "done")
                                 => c.pc \in CheckPcs
                          /\ d.pc \in CheckPcs => c.pc \in CheckPcs
    /\ \A d \in calls' :
           (d.op \in Publishes /\ \A c \in calls : c.id # d.id) => d.pc \in CheckPcs

C19_FailureChangesNothing == [][C19_Step]_vars

\* startSession by a user who is not the coach has failed; the session is
\* still scheduled and nothing was published.
C19_Witness ==
    \E c \in DoneCalls("startSession") :
        /\ c.res = Unauthorized
        /\ sessions[c.sessionId].status = "scheduled"
        /\ events = << >>

\* C20 as stated: a completed processPayment whose loaded session was not
\* ended has created its payment record.
C20_ProcessCreatesRecord ==
    \A c \in DoneCalls("processPayment") :
        (c.session # NoSession /\ c.session.status # "ended") => c.res = OK

\* C20: a payment record's status changes only through confirmPayment.
\* processPayment is rejected for a missing or ended session, fails when the
\* payment-intent call fails, and otherwise succeeds; its record is created
\* only in its last step, as one record with status pending, and no other step
\* adds or removes a record.  A stored record changes only in the save step of
\* a confirmPayment on its id, which sets its status to the given value and
\* changes nothing else; confirmPayment on an unknown id fails with
\* PaymentNotFound; no step of confirmPayment changes a session or participant.
PaymentCalls == {c \in calls : c.op \in {"processPayment", "confirmPayment"}}

C20_Decision ==
    \A c \in PaymentCalls :
        c.pc = "done" =>
            IF c.op = "processPayment"
            THEN /\ (c.res = SessionNotFound) <=> (c.session = NoSession)
                 /\ (c.res = SessionEnded) <=> (c.session.status = "ended")
                 /\ c.res \in {OK, ExternalFailure, SessionNotFound, SessionEnded}
            ELSE /\ c.res \in {OK, PaymentNotFound}
                 /\ c.res = OK => c.arg \in DOMAIN payments

C20_Step ==
    /\ Len(payments') >= Len(payments)
    /\ Len(payments') > Len(payments) =>
           \E c \in calls :
               /\ c.op = "processPayment" /\ c.pc = "create" /\ c \notin calls'
               /\ payments' = Append(payments,
                      [sessionId |-> c.sessionId, userId |-> c.userId,
                       amount |-> c.arg, status |-> "pending"])
               /\ \A d \in calls' : d.id = c.id => (d.pc = "done" /\ d.res = OK)
    /\ \A i \in DOMAIN payments :
           payments'[i] # payments[i] =>
               \E c \in calls :
                   /\ c.op = "confirmPayment" /\ c.pc = "save" /\ c \notin calls'
                   /\ c.arg = i
                   /\ payments' = [payments EXCEPT ![i].status = c.role]
    /\ \A c \in PaymentCalls :
           c \notin calls' =>
               /\ UNCHANGED <<sessions, users, events>>
               /\ (c.op = "processPayment" /\ c.pc # "create") => payments' = payments
               /\ (c.op = "confirmPayment" /\ c.pc = "findPayment") =>
                      /\ payments' = payments
                      /\ c.arg \notin DOMAIN payments =>
                             \A d \in calls' :
                                 d.id = c.id => (d.pc = "done" /\ d.res = PaymentNotFound)
               /\ (c.op = "confirmPayment" /\ c.pc = "save") =>
                      payments' = [payments EXCEPT ![c.arg].status = c.role]

C20_PaymentStatus == []C20_Decision /\ [][C20_Step]_vars

\* Two payments were recorded and confirmPayment has completed on the first:
\* it carries the confirmed status, the other one is still pending.
C20_Witness ==
    /\ Len(payments) = 2
    /\ payments[1].status \in PaymentStatuses
    /\ payments[2].status = "pending"
    /\ \E c \in DoneCalls("confirmPayment") :
           c.res = OK /\ c.arg = 1 /\ c.role = payments[1].status
====
